---- MODULE Spec2Model ----
(***************************************************************************)
(* A model of app.py, the Streamlit script that shows a fund's historical  *)
(* net-value trend: the analytics functions (in_range, moving_average,     *)
(* calc_extremes, the zoom-window index mapping) and the script's session  *)
(* state as it evolves over script runs.                                   *)
(*                                                                         *)
(* Numbers.  Unit values are naturals (a net value in some fixed unit);    *)
(* a quotient the code computes in floating point is kept as an exact      *)
(* fraction [num, den] and compared by cross-multiplication, so float      *)
(* rounding is outside the model.  Indices are 0-based as in the code: the *)
(* element i of a list is rows[i + 1] of the TLA+ sequence.                *)
(***************************************************************************)
EXTENDS Integers, Sequences, FiniteSets, TLC

\* ------------------------------------------------------------------ bounds
\* Function-level specifications: the longest series and the largest value.
MaxLen == 4
MaxVal == 3
\* The largest moving-average window tried by SpecMA.
MaxWin == 3
\* The longest filtered series tried by SpecZoom.
MaxN == 6
\* date.today(), as a day number.
Today == 2000
\* SpecFetch: the number of interactions made.
MaxSeq == 3

\* ----------------------------------------------------------- program data
None == [none |-> TRUE]

\* RANGE_ITEMS: "days" None is written 0; line 67 treats both alike.
RANGE_ITEMS ==
  << [key |-> "1m",  days |-> 31],
     [key |-> "3m",  days |-> 93],
     [key |-> "6m",  days |-> 186],
     [key |-> "1y",  days |-> 365],
     [key |-> "3y",  days |-> 365 * 3],
     [key |-> "5y",  days |-> 365 * 5],
     [key |-> "ytd", days |-> 0],
     [key |-> "all", days |-> 0] >>

RangeKeys == {RANGE_ITEMS[i].key : i \in DOMAIN RANGE_ITEMS}

\* MA_ITEMS, cut to the first two of its three averages.
MA_ITEMS ==
  << [key |-> "ma5",  win |-> 5],
     [key |-> "ma10", win |-> 10] >>

MAKeys == {MA_ITEMS[i].key : i \in DOMAIN MA_ITEMS}

MA_META == [k \in MAKeys |-> CHOOSE it \in {MA_ITEMS[i] : i \in DOMAIN MA_ITEMS} : it.key = k]

\* ------------------------------------------------------------- fractions
Frac(n, d) == [num |-> n, den |-> d]

\* a > b, a < b, a = b for fractions with den >= 0.
FracGT(a, b) == a.num * b.den > b.num * a.den
FracLT(a, b) == a.num * b.den < b.num * a.den
FracEQ(a, b) == a.num * b.den = b.num * a.den
FracLE(a, b) == ~FracGT(a, b)
FracGE(a, b) == ~FracLT(a, b)

\* The start values -1e18 and 1e18 of calc_extremes.  They exceed every
\* quotient of two bounded values and TLC's integers, so they are written
\* -1/0 and 1/0: under cross-multiplication every fraction with den > 0 is
\* above the first and below the second, as every bounded float is.
NEG_1E18 == Frac(-1, 0)
POS_1E18 == Frac(1, 0)

\* ------------------------------------------------------------- dates
\* A timestamp counts half days (the code's counts milliseconds, beyond
\* TLC's integers); a date is a day number.
TS_PER_DAY == 2

\* datetime.fromtimestamp(ts/1000).date() and fmt_date: the day of ts.
fmt_date(ts) == ts \div TS_PER_DAY

\* January 1 of today's year, with years of 365 days.
ytd_start == Today - (Today % 365)

range_conf(key) ==
  LET S == {i \in DOMAIN RANGE_ITEMS : RANGE_ITEMS[i].key = key}
  IN IF S = {} THEN None ELSE RANGE_ITEMS[CHOOSE i \in S : \A j \in S : i <= j]

in_range(d, key) ==
  IF key = "all" THEN TRUE
  ELSE IF key = "ytd" THEN d >= ytd_start
  ELSE LET conf == range_conf(key)
       IN IF conf = None \/ conf.days = 0 THEN TRUE
          ELSE d >= Today - conf.days

\* ------------------------------------------------------- moving_average
\* line 79: the oldest value leaves the queue
ma_pop_mutant(q, win) == Len(q) > win + 1
ma_pop(q, win) == Len(q) > win

\* line 81: the value recorded for this index
ma_value(q, q_sum, win) ==
  IF Len(q) < win THEN None ELSE Frac(q_sum, Len(q))

RECURSIVE ma_loop(_, _, _, _, _, _)
ma_loop(series, win, k, q, q_sum, out) ==
  IF k > Len(series) THEN out
  ELSE LET ts  == series[k][1]
           v   == series[k][2]
           q1  == Append(q, v)
           s1  == q_sum + v
           pop == ma_pop(q1, win)
           q2  == IF pop THEN Tail(q1) ELSE q1
           s2  == IF pop THEN s1 - Head(q1) ELSE s1
       IN ma_loop(series, win, k + 1, q2, s2,
                  Append(out, <<ts, ma_value(q2, s2, win)>>))

moving_average(series, win) == ma_loop(series, win, 1, <<>>, 0, <<>>)

\* -------------------------------------------------------- calc_extremes
ZeroDivisionError == [raised |-> "ZeroDivisionError"]

unit(rows, i) == rows[i + 1].unit

\* line 93: a candidate gain replaces the best one
gain_better_mutant(g, max_gain) == FracGE(g, max_gain)
gain_better(g, max_gain) == FracGT(g, max_gain)

\* line 95: a value replaces the running minimum
min_better_mutant(v, min_val) == v > min_val
min_better(v, min_val) == v < min_val

\* line 102: a candidate drawdown replaces the best one
dd_better(d, max_drawdown) == FracLT(d, max_drawdown)

\* line 104: a value replaces the running maximum
max_better(v, max_val) == v > max_val

\* line 94: the best gain and its span
gain_update_mutant(s, g, i) ==
  [s EXCEPT !.max_gain = g, !.gain_from = i, !.gain_to = s.min_idx]
gain_update(s, g, i) ==
  [s EXCEPT !.max_gain = g, !.gain_from = s.min_idx, !.gain_to = i]

\* line 103: the best drawdown and its span
dd_update(s, d, i) ==
  [s EXCEPT !.max_drawdown = d, !.dd_from = s.max_idx, !.dd_to = i]

\* lines 90-96, from index i on; s holds the loop's variables.
RECURSIVE gain_loop(_, _, _)
gain_loop(rows, i, s) ==
  IF i > Len(rows) - 1 THEN s
  ELSE IF s.min_val = 0 THEN ZeroDivisionError
  ELSE LET v  == unit(rows, i)
           g  == Frac(v - s.min_val, s.min_val)
           s1 == IF gain_better(g, s.max_gain)
                 THEN gain_update(s, g, i)
                 ELSE s
           s2 == IF min_better(v, s.min_val)
                 THEN [s1 EXCEPT !.min_val = v, !.min_idx = i]
                 ELSE s1
       IN gain_loop(rows, i + 1, s2)

\* lines 99-105, from index i on.
RECURSIVE dd_loop(_, _, _)
dd_loop(rows, i, s) ==
  IF i > Len(rows) - 1 THEN s
  ELSE IF s.max_val = 0 THEN ZeroDivisionError
  ELSE LET v  == unit(rows, i)
           d  == Frac(v - s.max_val, s.max_val)
           s1 == IF dd_better(d, s.max_drawdown)
                 THEN dd_update(s, d, i)
                 ELSE s
           s2 == IF max_better(v, s.max_val)
                 THEN [s1 EXCEPT !.max_val = v, !.max_idx = i]
                 ELSE s1
       IN dd_loop(rows, i + 1, s2)

calc_extremes(rows) ==
  LET n == Len(rows)
  IN IF n < 2 THEN None
     ELSE LET up == gain_loop(rows, 1,
                      [min_val |-> unit(rows, 0), min_idx |-> 0,
                       max_gain |-> NEG_1E18, gain_from |-> 0, gain_to |-> 0])
          IN IF up = ZeroDivisionError THEN ZeroDivisionError
             ELSE LET dn == dd_loop(rows, 1,
                              [max_val |-> unit(rows, 0), max_idx |-> 0,
                               max_drawdown |-> POS_1E18, dd_from |-> 0, dd_to |-> 0])
                  IN IF dn = ZeroDivisionError THEN ZeroDivisionError
                     ELSE [upPct    |-> Frac(up.max_gain.num * 100, up.max_gain.den),
                           upFrom   |-> up.gain_from,
                           upTo     |-> up.gain_to,
                           downPct  |-> Frac(dn.max_drawdown.num * 100, dn.max_drawdown.den),
                           downFrom |-> dn.dd_from,
                           downTo   |-> dn.dd_to]

\* ----------------------------------------------------- zoom window mapping
Max(a, b) == IF a >= b THEN a ELSE b
Min(a, b) == IF a <= b THEN a ELSE b

\* Python's round(num / den) for num >= 0, den > 0: to the nearest integer,
\* a half to the even one.
round(num, den) ==
  LET q == num \div den
      r == num % den
  IN IF 2 * r < den THEN q
     ELSE IF 2 * r > den THEN q + 1
     ELSE IF q % 2 = 0 THEN q ELSE q + 1

\* lines 288, 289: max(0, min(n-1, round(pct/100 * (n-1))))
zoom_index(pct, n) == Max(0, Min(n - 1, round(pct * (n - 1), 100)))

\* lines 288-291: the ordered index pair of a zoom window
zoom_range_mutant(dz, n) ==
  [s_idx |-> zoom_index(dz.start, n), e_idx |-> zoom_index(dz.end, n)]
zoom_range(dz, n) ==
  LET s == zoom_index(dz.start, n)
      e == zoom_index(dz.end, n)
  IN IF e < s THEN [s_idx |-> e, e_idx |-> s] ELSE [s_idx |-> s, e_idx |-> e]

\* lines 285-294: rows_visible
visible_rows(rows_all, dz) ==
  IF rows_all # <<>>
  THEN LET zr == zoom_range(dz, Len(rows_all))
       IN SubSeq(rows_all, zr.s_idx + 1, zr.e_idx + 1)
  ELSE <<>>

\* ------------------------------------------------------- highlight spans
\* lines 298-313: mark_areas, a span per highlighted extreme, by date
mark_areas(rows_visible, ex, highlight_up, highlight_down) ==
  IF rows_visible # <<>> /\ ex # None
  THEN (IF highlight_up
        THEN << [kind |-> "gain",
                 start |-> rows_visible[ex.upFrom + 1].date,
                 end   |-> rows_visible[ex.upTo + 1].date] >>
        ELSE <<>>)
       \o
       (IF highlight_down
        THEN << [kind |-> "drawdown",
                 start |-> rows_visible[ex.downFrom + 1].date,
                 end   |-> rows_visible[ex.downTo + 1].date] >>
        ELSE <<>>)
  ELSE <<>>

\* ------------------------------------------------------------ the fetch
\* DEFAULT_FUND_MAP, cut to two of its seven funds.
DEFAULT_FUND_MAP ==
  [c \in {"011892", "110022"} |->
     IF c = "011892" THEN "name_011892" ELSE "name_110022"]

\* The codes a user may type: the two funds and one outside the map.
Codes == {"011892", "110022", "000001"}

\* sorted(fund_map.keys()), line 179
codes_sorted(fund_map) ==
  LET order == <<"000001", "011892", "110022">>
      RECURSIVE build(_)
      build(i) == IF i > Len(order) THEN <<>>
                  ELSE (IF order[i] \in DOMAIN fund_map THEN <<order[i]>> ELSE <<>>)
                       \o build(i + 1)
  IN build(1)

\* One observation of Data_netWorthTrend, `ago` days before today.
Obs(ago, tick, y) == [x |-> (Today - ago) * TS_PER_DAY + tick, y |-> y]

\* What the remote endpoint holds for a code: Data_netWorthTrend (in the
\* order served) and fS_name.
Remote(code) ==
  IF code = "110022"
  THEN [net  |-> << Obs(200, 0, 1), Obs(1600, 1, 2), Obs(100, 0, 3),
                    Obs(40, 1, 1), Obs(10, 0, 2) >>,
        name |-> "fetched_110022"]
  ELSE IF code = "011892"
  THEN [net  |-> << Obs(800, 0, 1), Obs(400, 0, 0), Obs(50, 1, 2) >>,
        name |-> "fetched_011892"]
  ELSE [net  |-> << Obs(20, 0, 2), Obs(5, 0, 3) >>,
        name |-> "fetched_000001"]

FetchFailed == [failed |-> TRUE]

\* fetch_pingzhong: the three values returned, or an exception raised.
fetch_pingzhong(code) == {FetchFailed, Remote(code)}

\* ------------------------------------------------------- the script run
Full == [start |-> 0, end |-> 100]

Zoom(s, e) == [start |-> s, end |-> e]

\* The zoom windows the chart reports in Spec: the full one, inner ones, an
\* inverted one.
ZoomWindows == {Full, Zoom(30, 70), Zoom(70, 30), Zoom(0, 30), Zoom(70, 100)}

RECURSIVE insert_sorted(_, _)
insert_sorted(s, r) ==
  IF s = <<>> THEN <<r>>
  ELSE IF Head(s).ts <= r.ts THEN <<Head(s)>> \o insert_sorted(Tail(s), r)
  ELSE <<r>> \o s

\* rows_all.sort(key=ts), line 267
RECURSIVE sort_rows(_)
sort_rows(rows) ==
  IF rows = <<>> THEN <<>>
  ELSE insert_sorted(sort_rows(SubSeq(rows, 1, Len(rows) - 1)), rows[Len(rows)])

\* lines 256-266: the observations of the selected range, as rows
RECURSIVE filter_rows(_, _)
filter_rows(net_raw, key) ==
  IF net_raw = <<>> THEN <<>>
  ELSE LET obj == Head(net_raw)
           ts  == obj.x
           d   == fmt_date(ts)
       IN (IF in_range(d, key)
           THEN << [ts |-> ts, date |-> fmt_date(ts), unit |-> obj.y] >>
           ELSE <<>>)
          \o filter_rows(Tail(net_raw), key)

\* lines 256-267
rows_all_of(net_raw, key) == sort_rows(filter_rows(net_raw, key))

\* line 275
net_series_of(rows) == [i \in DOMAIN rows |-> <<rows[i].ts, rows[i].unit>>]

\* lines 276-279
ma_series_map_of(rows, enabled) ==
  [key \in enabled |-> moving_average(net_series_of(rows), MA_META[key].win)]

\* line 296
extremes_of(rows_visible) ==
  IF rows_visible # <<>> THEN calc_extremes(rows_visible) ELSE None

\* lines 244-245: a fetched name fills a missing entry of fund_map
fund_map_after_mutant(fund_map, code, fetched_name) ==
  [c \in DOMAIN fund_map \cup {code} |->
     IF c = code THEN fetched_name ELSE fund_map[c]]
fund_map_after(fund_map, code, fetched_name) ==
  IF fetched_name # "" /\ (code \notin DOMAIN fund_map \/ fund_map[code] = "")
  THEN [c \in DOMAIN fund_map \cup {code} |->
          IF c = code THEN fetched_name ELSE fund_map[c]]
  ELSE fund_map

\* What a run shows when it ends before the chart: nothing but a message.
Blank(status) ==
  [status |-> status, rows_all |-> <<>>, ma_series_map |-> <<>>,
   rows_visible |-> <<>>, ex |-> None, mark_areas |-> <<>>,
   dataZoom |-> None, chart_key |-> <<>>]

\* line 285: the zoom window the slice is cut with
slice_zoom(datazoom) == datazoom

\* lines 255-353 and 371-399: the payload of a run whose fetch succeeded,
\* from the session state the run reads.
payload(net_raw, key, enabled, datazoom, code, hl) ==
  LET rows_all     == rows_all_of(net_raw, key)
      dz           == slice_zoom(datazoom)
      rows_visible == visible_rows(rows_all, dz)
      ex           == extremes_of(rows_visible)
  IN IF ex = ZeroDivisionError THEN Blank("exception")
     ELSE [status        |-> "ready",
           rows_all      |-> rows_all,
           ma_series_map |-> ma_series_map_of(rows_all, enabled),
           rows_visible  |-> rows_visible,
           ex            |-> ex,
           mark_areas    |-> mark_areas(rows_visible, ex, hl.up, hl.down),
           dataZoom      |-> datazoom,
           chart_key     |-> <<code, key>>]

\* ---------------------------------------------------------------- state
VARIABLES
  fund_map,      \* st.session_state.fund_map
  range_key,     \* st.session_state.range_key
  enabled_mas,   \* st.session_state.enabled_mas
  datazoom,      \* st.session_state.datazoom
  sel_code,      \* st.session_state.sel_code
  chart_value,   \* the value the chart component holds: its last datazoom event
  view,          \* what the last run left on the page
  last,          \* history: the interaction of the last run, and datazoom before it
  run,           \* SpecFetch: the run waiting for its fetch, or None
  pending,       \* SpecFetch: the interaction made during that fetch, or None
  seq,           \* SpecFetch: history, the number of interactions made
  shown_seq,     \* SpecFetch: history, the interaction whose run left `view`
  dropped,       \* SpecFetch: history, the interactions whose run ended at line 246 or 248
  call,          \* function-level specifications: the call made
  ret            \* function-level specifications: what it returned

vars == <<fund_map, range_key, enabled_mas, datazoom, sel_code,
          chart_value, view, last, run, pending, seq, shown_seq, dropped,
          call, ret>>

session == <<fund_map, range_key, enabled_mas, datazoom, sel_code,
             chart_value, view, last, run, pending, seq, shown_seq, dropped>>

\* lines 219-220: the two highlight checkboxes, left checked as they start
highlight == [up |-> TRUE, down |-> TRUE]

\* lines 133-142: the session state of a new session, before its first run
SessionInit ==
  /\ fund_map = DEFAULT_FUND_MAP
  /\ range_key = "6m"
  /\ enabled_mas = {}
  /\ datazoom = Full
  /\ sel_code = "110022"
  /\ chart_value = None
  /\ view = Blank("new")
  /\ last = [op |-> "new", dz |-> Full]
  /\ run = None
  /\ pending = None
  /\ seq = 0
  /\ shown_seq = 0
  /\ dropped = {}

Init ==
  /\ SessionInit
  /\ call = None
  /\ ret = None

\* ---------------------------------------------------------- interactions
\* What a user does to start a run: one widget changes (or none: a reload,
\* the first run).
Interactions ==
  [op : {"radio"}, key : RangeKeys]
  \cup [op : {"ma"}, box : MAKeys \cup {"all"}]
  \cup [op : {"type"}, code : Codes]
  \cup [op : {"pick"}, code : DOMAIN DEFAULT_FUND_MAP]
  \cup [op : {"zoom"}, zw : ZoomWindows]
  \cup [op : {"ytd"}]
  \cup [op : {"rerun"}]

\* line 194: the key the radio returns
radio_key(w, stored_key) ==
  IF w.op = "radio" THEN w.key
  ELSE IF w.op = "ytd" THEN "ytd"      \* the rerun's radio, index at "ytd"
  ELSE stored_key

\* lines 201-203: the radio's key against the stored one
radio_datazoom_mutant(key, stored_key, dz) == dz
radio_datazoom_always(key, stored_key, dz) == Full
radio_datazoom(key, stored_key, dz) == IF key # stored_key THEN Full ELSE dz

\* lines 233-236: the year-to-date button, pressed or not
ytd_button(w, key, dz) ==
  IF w.op = "ytd" THEN [range_key |-> "ytd", datazoom |-> Full]
  ELSE [range_key |-> key, datazoom |-> dz]

\* lines 207-215: the boxes checked after the user clicked `box`.  The
\* select-all box, once checked, makes every box start checked.
checkbox_picked(w, enabled) ==
  IF w.op # "ma" THEN enabled
  ELSE IF w.box = "all" THEN MAKeys
  ELSE IF w.box \in enabled THEN enabled \ {w.box}
  ELSE enabled \cup {w.box}

\* lines 169-191: sel_code after the text input returned inp_code and the
\* select box returned the code `picked` ("": its default entry)
sidebar_sel_code(fmap, stored_code, inp_code, picked) ==
  LET typed   == IF inp_code \in Codes THEN inp_code ELSE stored_code
      options == codes_sorted(fmap)
      dflt    == IF typed \in DOMAIN fmap THEN typed ELSE options[1]
      dd      == IF picked = "" THEN dflt ELSE picked
  IN IF options # <<>> THEN dd ELSE typed

\* The script down to the fetch, lines 145-236, for interaction w: the
\* session state it leaves and what the rest of the run reads.  A press of
\* the button ends the run at st.rerun(); the run that follows renders the
\* chart anew, so prev_key, the key of the chart the previous run rendered,
\* is then <<>>.
Sidebar(w) ==
  LET code == sidebar_sel_code(fund_map, sel_code,
                               IF w.op = "type" THEN w.code ELSE sel_code,
                               IF w.op = "pick" THEN w.code ELSE "")
      rk   == radio_key(w, range_key)
      dz   == radio_datazoom(rk, IF w.op = "ytd" THEN "ytd" ELSE range_key, datazoom)
      btn  == ytd_button(w, rk, dz)
  IN [code     |-> code,
      key      |-> btn.range_key,
      enabled  |-> checkbox_picked(w, enabled_mas),
      dz       |-> btn.datazoom,
      prev_key |-> IF w.op = "ytd" THEN <<>> ELSE view.chart_key,
      fired    |-> IF w.op = "zoom" THEN w.zw ELSE None]

\* The interactions open to the user with the page as it is: a change of a
\* widget's value; a zoom needs a chart on the page.
CanDo(w) ==
  /\ w.op = "radio" => w.key # range_key
  /\ w.op = "ma"    => checkbox_picked(w, enabled_mas) # enabled_mas
  /\ w.op = "pick"  => w.code \in DOMAIN fund_map /\ w.code # sel_code
  /\ w.op = "zoom"  => view.status = "ready" /\ w.zw # datazoom

\* line 367: what st_echarts returns.  A component keeps its value while
\* it is rendered under the same key in run after run; `fired` is the
\* datazoom event that started this run, if one did.
st_echarts(prev_key, key, held, fired) ==
  IF fired # None THEN fired
  ELSE IF prev_key = key THEN held
  ELSE None

\* lines 368-369
datazoom_after(event, dz) == IF event # None THEN event ELSE dz

\* lines 238-399: the script from the fetch on, for the run r (the values
\* Sidebar left) and the fetch's outcome.
Main(r, out) ==
  IF out = FetchFailed
  THEN \* lines 247-250: the error is shown and the run stops
       /\ view' = Blank("fetch_error")
       /\ chart_value' = None
       /\ datazoom' = r.dz
       /\ fund_map' = fund_map
  ELSE LET pl == payload(out.net, r.key, r.enabled, r.dz, r.code, highlight)
           ev == st_echarts(r.prev_key, pl.chart_key, chart_value, r.fired)
       IN /\ fund_map' = fund_map_after(fund_map, r.code, out.name)
          /\ view' = pl
          /\ IF pl.status = "ready"
             THEN /\ chart_value' = ev
                  /\ datazoom' = datazoom_after(ev, r.dz)
             ELSE \* calc_extremes raised: the run ends at line 296
                  /\ chart_value' = None
                  /\ datazoom' = r.dz

\* ------------------------------------------------- Spec: one run a step
\* A whole run for interaction w, made with no run under way.
Run(w) ==
  LET r == Sidebar(w)
  IN /\ call = None /\ run = None
     /\ CanDo(w)
     /\ range_key' = r.key
     /\ enabled_mas' = r.enabled
     /\ sel_code' = r.code
     /\ \E out \in fetch_pingzhong(r.code) : Main(r, out)
     /\ last' = [op |-> w.op, dz |-> datazoom]
     /\ UNCHANGED <<run, pending, seq, shown_seq, dropped, call, ret>>

RangeRadio == \E w \in Interactions : w.op = "radio" /\ Run(w)
ToggleMA   == \E w \in Interactions : w.op = "ma" /\ Run(w)
TypeCode   == \E w \in Interactions : w.op = "type" /\ Run(w)
PickCode   == \E w \in Interactions : w.op = "pick" /\ Run(w)
ZoomEvent  == \E w \in Interactions : w.op = "zoom" /\ Run(w)
YtdButton  == \E w \in Interactions : w.op = "ytd" /\ Run(w)
Rerun      == \E w \in Interactions : w.op = "rerun" /\ Run(w)

Next ==
  \/ RangeRadio
  \/ ToggleMA
  \/ TypeCode
  \/ PickCode
  \/ YtdButton
  \/ ZoomEvent
  \/ Rerun

Spec == Init /\ [][Next]_vars

\* ------------------------------ SpecFetch: the fetch takes its time
\* The run of one interaction in two steps, up to the call of line 242 and
\* from its return on, so that the user can act while the request is out.
\* One script runs at a time in a session: an interaction made meanwhile
\* asks for a new run, and the running script ends at its next st call.

\* lines 246 and 248: the first st call after fetch_pingzhong returned or
\* raised; the run ends there when a new run has been asked for
superseded(asked) == asked # None

\* The script from line 145 to the call of line 242, for interaction w.
StartRun(w, r) ==
  /\ range_key' = r.key
  /\ enabled_mas' = r.enabled
  /\ sel_code' = r.code
  /\ datazoom' = r.dz
  /\ last' = [op |-> w.op, dz |-> datazoom]
  /\ UNCHANGED <<fund_map, chart_value, view, shown_seq, dropped, call, ret>>

\* An interaction made with no run under way.
BeginRun ==
  \E w \in Interactions :
    /\ call = None /\ run = None /\ pending = None
    /\ seq < MaxSeq
    /\ CanDo(w)
    /\ StartRun(w, Sidebar(w))
    /\ seq' = seq + 1
    /\ run' = [r |-> Sidebar(w), seq |-> seq + 1]
    /\ pending' = None

\* An interaction made while the request of line 119 is out.
InteractDuringFetch ==
  \E w \in Interactions :
    /\ run # None /\ pending = None
    /\ seq < MaxSeq
    /\ CanDo(w)
    /\ seq' = seq + 1
    /\ pending' = w
    /\ UNCHANGED <<fund_map, range_key, enabled_mas, datazoom, sel_code,
                   chart_value, view, last, run, shown_seq, dropped, call, ret>>

\* lines 242-250 of a run that is no longer wanted: the fetch returns or
\* raises, lines 243-245 run, and the script ends at line 246 or 248.
StaleFetchReturns ==
  /\ run # None /\ superseded(pending)
  /\ \E out \in fetch_pingzhong(run.r.code) :
       fund_map' = IF out = FetchFailed THEN fund_map
                   ELSE fund_map_after(fund_map, run.r.code, out.name)
  /\ run' = None
  /\ dropped' = dropped \cup {run.seq}
  /\ UNCHANGED <<range_key, enabled_mas, datazoom, sel_code, chart_value,
                 view, last, pending, seq, shown_seq, call, ret>>

\* The run asked for during the fetch starts once the script has ended.
\* The run before it rendered no chart.
BeginPendingRun ==
  /\ run = None /\ pending # None
  /\ LET r == [Sidebar(pending) EXCEPT !.prev_key = <<>>]
     IN /\ StartRun(pending, r)
        /\ run' = [r |-> r, seq |-> seq]
  /\ pending' = None
  /\ seq' = seq

\* lines 242-399 of the run still wanted when its fetch returns or raises.
FetchReturns ==
  /\ run # None /\ ~superseded(pending)
  /\ \E out \in fetch_pingzhong(run.r.code) : Main(run.r, out)
  /\ shown_seq' = run.seq
  /\ run' = None
  /\ UNCHANGED <<range_key, enabled_mas, sel_code, last, pending, seq, dropped,
                 call, ret>>

NextFetch ==
  \/ BeginRun
  \/ InteractDuringFetch
  \/ StaleFetchReturns
  \/ BeginPendingRun
  \/ FetchReturns

SpecFetch == Init /\ [][NextFetch]_vars

\* ------------------------------------------- function-level specifications
\* Each starts from one call, drawn from the bounded inputs, and returns.

\* The rows of a list of unit values, one observation a day.
RowsOf(units) ==
  [k \in DOMAIN units |->
     [ts |-> k * TS_PER_DAY, date |-> fmt_date(k * TS_PER_DAY), unit |-> units[k]]]

UnitLists == UNION {[1..n -> 0..MaxVal] : n \in 0..MaxLen}

\* Timestamps of a series: strictly increasing.
TsLists ==
  UNION {{t \in [1..n -> 1..(MaxLen + 1)] : \A i \in 1..(n - 1) : t[i] < t[i + 1]}
         : n \in 0..MaxLen}

SeriesSet ==
  {[k \in DOMAIN u |-> <<t[k], u[k]>>] :
     <<t, u>> \in {p \in TsLists \X UnitLists : Len(p[1]) = Len(p[2])}}

\* moving_average
InitMA ==
  /\ SessionInit
  /\ call \in [fn : {"moving_average"}, series : SeriesSet, win : 1..MaxWin]
  /\ ret = None

CallMovingAverage ==
  /\ call # None /\ call.fn = "moving_average" /\ ret = None
  /\ ret' = [out |-> moving_average(call.series, call.win)]
  /\ UNCHANGED <<session, call>>

SpecMA == InitMA /\ [][CallMovingAverage]_vars

\* calc_extremes over a visible sub-range, and the spans looked up with it
InitEx ==
  /\ SessionInit
  /\ call \in [fn : {"calc_extremes"}, units : UnitLists,
               highlight_up : BOOLEAN, highlight_down : BOOLEAN]
  /\ ret = None

CallCalcExtremes ==
  /\ call # None /\ call.fn = "calc_extremes" /\ ret = None
  /\ LET rows_visible == RowsOf(call.units)
         ex == extremes_of(rows_visible)
     IN ret' = [ex |-> ex,
                mark_areas |-> IF ex = ZeroDivisionError THEN <<>>
                               ELSE mark_areas(rows_visible, ex,
                                               call.highlight_up, call.highlight_down)]
  /\ UNCHANGED <<session, call>>

SpecEx == InitEx /\ [][CallCalcExtremes]_vars

\* the zoom window mapping over a filtered series of n rows
InitZoom ==
  /\ SessionInit
  /\ call \in [fn : {"zoom"}, n : 0..MaxN, dz : [start : 0..100, end : 0..100]]
  /\ ret = None

CallZoom ==
  /\ call # None /\ call.fn = "zoom" /\ ret = None
  /\ LET rows_all == RowsOf([k \in 1..call.n |-> 1])
     IN ret' = [rows_visible |-> visible_rows(rows_all, call.dz),
                range |-> IF rows_all # <<>> THEN zoom_range(call.dz, call.n) ELSE None]
  /\ UNCHANGED <<session, call>>

SpecZoom == InitZoom /\ [][CallZoom]_vars

\* ------------------------------------------------------------ properties
Returned(fn) == call # None /\ call.fn = fn /\ ret # None

\* The sum of the values of series[a..b].
RECURSIVE SumVals(_, _, _)
SumVals(series, a, b) ==
  IF a > b THEN 0 ELSE series[a][2] + SumVals(series, a + 1, b)

ScenarioA ==
  LET o == moving_average(<< <<11, 1>>, <<12, 2>>, <<13, 3>>, <<14, 4>>, <<15, 5>> >>, 3)
  IN /\ Len(o) = 5
     /\ o[1] = <<11, None>> /\ o[2] = <<12, None>>
     /\ \A k \in 3..5 : o[k][1] = 10 + k /\ o[k][2] # None /\ o[k][2].den > 0
                        /\ FracEQ(o[k][2], Frac(k - 1, 1))

\* C4: moving_average returns as many entries as the series has, with the
\* same timestamps in the same order; the value at index i is absent when
\* i < w - 1 and is the arithmetic mean of v[i-w+1 .. i] otherwise; and
\* [1,2,3,4,5] with w = 3 gives [absent, absent, 2, 3, 4].
C4_MovingAverage ==
  /\ ScenarioA
  /\ Returned("moving_average") =>
       LET series == call.series
           w      == call.win
           out    == ret.out
       IN /\ Len(out) = Len(series)
          /\ \A k \in 1..Len(series) :
               /\ out[k][1] = series[k][1]
               /\ IF k - 1 < w - 1
                  THEN out[k][2] = None
                  ELSE /\ out[k][2] # None
                       /\ out[k][2].den > 0
                       /\ FracEQ(out[k][2], Frac(SumVals(series, k - w + 1, k), w))

\* A call with a window of 2 over a full-length series of distinct adjacent
\* values: the first entry absent, the last a mean.
C4_Witness ==
  /\ Returned("moving_average")
  /\ call.win = 2 /\ Len(call.series) = MaxLen
  /\ call.series[MaxLen][2] # call.series[MaxLen - 1][2]
  /\ call.series[1][2] > 0
  /\ ret.out[1][2] = None
  /\ ret.out[MaxLen][2] # None

IsResult(ex) == ex # None /\ ex # ZeroDivisionError

\* v[j]/v[i] - 1 in percent, for 0-based i, j into the unit values v.
Pct(v, i, j) == Frac(100 * (v[j + 1] - v[i + 1]), v[i + 1])

ScenarioB ==
  LET e == calc_extremes(RowsOf(<<10, 9, 12, 8, 15>>))
  IN /\ e.upFrom = 3 /\ e.upTo = 4 /\ e.upPct.den > 0
     /\ FracEQ(e.upPct, Frac(875, 10))
     /\ e.downFrom = 2 /\ e.downTo = 3 /\ e.downPct.den > 0
     /\ FracEQ(e.downPct, Frac(-100, 3))

\* C5: over at least 2 strictly positive unit values calc_extremes returns
\* the maximum of v[j]/v[i] - 1 over all i < j with a pair attaining it, and
\* the minimum of v[j]/v[i] - 1 over all i < j with a pair attaining it; and
\* [1.0, 0.9, 1.2, 0.8, 1.5] gives gain 3->4 and drawdown 2->3.
C5_ExtremesAreOptimal ==
  /\ ScenarioB
  /\ (/\ Returned("calc_extremes")
      /\ Len(call.units) >= 2
      /\ \A k \in DOMAIN call.units : call.units[k] > 0) =>
       LET v  == call.units
           n  == Len(v)
           ex == ret.ex
       IN /\ IsResult(ex)
          /\ 0 <= ex.upFrom /\ ex.upFrom < ex.upTo /\ ex.upTo <= n - 1
          /\ ex.upPct.den > 0
          /\ FracEQ(ex.upPct, Pct(v, ex.upFrom, ex.upTo))
          /\ 0 <= ex.downFrom /\ ex.downFrom < ex.downTo /\ ex.downTo <= n - 1
          /\ ex.downPct.den > 0
          /\ FracEQ(ex.downPct, Pct(v, ex.downFrom, ex.downTo))
          /\ \A i \in 0..(n - 1) : \A j \in (i + 1)..(n - 1) :
               /\ FracLE(Pct(v, i, j), ex.upPct)
               /\ FracGE(Pct(v, i, j), ex.downPct)

\* A full-length list of positive values whose best gain does not start at
\* index 0 and whose worst drawdown does not end at the last index.
C5_Witness ==
  /\ Returned("calc_extremes")
  /\ Len(call.units) = MaxLen
  /\ \A k \in DOMAIN call.units : call.units[k] > 0
  /\ IsResult(ret.ex)
  /\ ret.ex.upFrom > 0
  /\ ret.ex.downTo < MaxLen - 1
  /\ ret.ex.upPct.num > 0 /\ ret.ex.downPct.num < 0

\* The dates of the rows of a visible sub-range.
DatesOf(rows) == {rows[k].date : k \in DOMAIN rows}

\* C8: the indices of a result over a visible sub-range of m rows satisfy
\* 0 <= upFrom <= upTo <= m-1 and 0 <= downFrom <= downTo <= m-1, and every
\* highlighted span runs between two dates of the visible sub-range.
C8_IndicesInsideVisible ==
  (Returned("calc_extremes") /\ IsResult(ret.ex)) =>
    LET m  == Len(call.units)
        ex == ret.ex
        rows_visible == RowsOf(call.units)
    IN /\ 0 <= ex.upFrom /\ ex.upFrom <= ex.upTo /\ ex.upTo <= m - 1
       /\ 0 <= ex.downFrom /\ ex.downFrom <= ex.downTo /\ ex.downTo <= m - 1
       /\ \A a \in DOMAIN ret.mark_areas :
            /\ ret.mark_areas[a].start \in DatesOf(rows_visible)
            /\ ret.mark_areas[a].end \in DatesOf(rows_visible)
            /\ ret.mark_areas[a].start <= ret.mark_areas[a].end

\* A result over a full-length sub-range with both spans highlighted, the
\* gain span ending at the last row.
C8_Witness ==
  /\ Returned("calc_extremes") /\ IsResult(ret.ex)
  /\ Len(call.units) = MaxLen
  /\ Len(ret.mark_areas) = 2
  /\ ret.ex.upTo = MaxLen - 1 /\ ret.ex.upFrom > 0

\* min and max of v[0 .. i-1], for 1 <= i.
RunMin(v, i) == CHOOSE x \in {v[k] : k \in 1..i} : \A k \in 1..i : x <= v[k]
RunMax(v, i) == CHOOSE x \in {v[k] : k \in 1..i} : \A k \in 1..i : x >= v[k]

\* The gain and the drawdown the loops evaluate at index i.
GainAt(v, i) == Frac(v[i + 1] - RunMin(v, i), RunMin(v, i))
DrawdownAt(v, i) == Frac(v[i + 1] - RunMax(v, i), RunMax(v, i))

Least(S) == CHOOSE x \in S : \A y \in S : x <= y

\* C10: ties go to the first occurrence.  upTo is the smallest end index
\* reaching the best gain and upFrom the earliest index holding the minimum
\* of the values before upTo; downTo is the smallest end index reaching the
\* worst drawdown and downFrom the earliest index holding the maximum of the
\* values before downTo; each base index is strictly before its end index.
C10_FirstOccurrenceWins ==
  (Returned("calc_extremes") /\ IsResult(ret.ex)) =>
    LET v  == call.units
        n  == Len(v)
        ex == ret.ex
    IN /\ ex.upTo = Least({i \in 1..(n - 1) :
                             \A j \in 1..(n - 1) : FracGE(GainAt(v, i), GainAt(v, j))})
       /\ ex.upFrom = Least({k \in 0..(ex.upTo - 1) : v[k + 1] = RunMin(v, ex.upTo)})
       /\ ex.upFrom < ex.upTo
       /\ ex.downTo = Least({i \in 1..(n - 1) :
                               \A j \in 1..(n - 1) :
                                 FracLE(DrawdownAt(v, i), DrawdownAt(v, j))})
       /\ ex.downFrom = Least({k \in 0..(ex.downTo - 1) : v[k + 1] = RunMax(v, ex.downTo)})
       /\ ex.downFrom < ex.downTo

\* A result where a later end index reaches the best gain again and a later
\* index before upTo holds the same minimum.
C10_Witness ==
  /\ Returned("calc_extremes") /\ IsResult(ret.ex)
  /\ LET v == call.units
         n == Len(v)
         ex == ret.ex
     IN /\ \E i \in (ex.upTo + 1)..(n - 1) : FracEQ(GainAt(v, i), GainAt(v, ex.upTo))
        /\ \E k \in (ex.upFrom + 1)..(ex.upTo - 1) : v[k + 1] = v[ex.upFrom + 1]
        /\ \E i \in (ex.downTo + 1)..(n - 1) :
             FracEQ(DrawdownAt(v, i), DrawdownAt(v, ex.downTo))

\* C3: for a filtered series of n > 0 rows and a zoom window with both
\* percentages in [0,100], in either order, 0 <= startIndex <= endIndex <=
\* n-1, the visible sub-range is that non-empty slice, (0,100) maps to
\* (0, n-1) and (p,p) to a single index.
C3_ZoomIndicesOrdered ==
  (Returned("zoom") /\ call.n > 0) =>
    LET n  == call.n
        dz == call.dz
        zr == ret.range
        rows_all == RowsOf([k \in 1..n |-> 1])
    IN /\ zr # None
       /\ 0 <= zr.s_idx /\ zr.s_idx <= zr.e_idx /\ zr.e_idx <= n - 1
       /\ ret.rows_visible = SubSeq(rows_all, zr.s_idx + 1, zr.e_idx + 1)
       /\ Len(ret.rows_visible) = zr.e_idx - zr.s_idx + 1
       /\ Len(ret.rows_visible) >= 1
       /\ (dz = Full => zr.s_idx = 0 /\ zr.e_idx = n - 1)
       /\ (dz.start = dz.end => zr.s_idx = zr.e_idx)

\* An inverted window over the longest series, mapped to distinct indices.
C3_Witness ==
  /\ Returned("zoom") /\ call.n = MaxN
  /\ call.dz.start > call.dz.end
  /\ ret.range.s_idx < ret.range.e_idx
  /\ ret.range.s_idx > 0

\* The payload a run computed carries the full zoom window, and its visible
\* rows are all the filtered rows.
FullPayload(v) ==
  /\ v.dataZoom = Full
  /\ v.rows_visible = v.rows_all

C1_Step ==
  /\ range_key' # range_key =>
       IF view'.status = "ready"
       THEN FullPayload(view') /\ view'.chart_key[2] = range_key'
       ELSE datazoom' = Full
  /\ (view.status # "ready" /\ datazoom = Full) =>
       IF view'.status = "ready" THEN FullPayload(view') ELSE datazoom' = Full

\* C1: a run in which range_key changes to another key (by the radio or by
\* the year-to-date button) computes its payload with the zoom window
\* {0,100}, whatever window was stored; if that run computes no payload (its
\* fetch failed, or it raised), {0,100} stays stored over the runs that
\* compute none and is the window of the next payload computed.
C1_RangeChangeResetsZoom == [][C1_Step]_vars

\* The radio changed the range while {30,70} was stored, and the run's
\* payload was computed over the full window of a series of several rows.
C1_Witness ==
  /\ last.op = "radio" /\ last.dz = Zoom(30, 70)
  /\ view.status = "ready" /\ view.chart_key[2] = range_key
  /\ Len(view.rows_all) >= 4
  /\ FullPayload(view)
  /\ datazoom = Full

\* C2: at the end of every run that computed a payload, the visible rows and
\* the extremes shown are those of the slice of the filtered rows that the
\* stored zoom window selects.
C2_StatsMatchStoredZoom ==
  view.status = "ready" =>
    /\ view.rows_visible = visible_rows(view.rows_all, datazoom)
    /\ view.ex = extremes_of(visible_rows(view.rows_all, datazoom))

\* C6: no run ends in an exception raised by the analytics steps.
C6_NoErrorState == view.status # "exception"

\* C7, as claimed: a run started by a moving-average box leaves range_key
\* and datazoom as they were; a run started by a zoom event leaves range_key
\* and enabled_mas as they were; and datazoom keeps its value over every run
\* in which neither the user's zoom nor range_key changes.
C7_Original ==
  [][ /\ last'.op = "ma" => range_key' = range_key /\ datazoom' = datazoom
      /\ last'.op = "zoom" => range_key' = range_key /\ enabled_mas' = enabled_mas
      /\ (range_key' = range_key /\ last'.op # "zoom") => datazoom' = datazoom
    ]_vars

\* C7, amended: as claimed, but the run started by the year-to-date button
\* is excepted from the last part: it stores {0,100} even when range_key is
\* already "ytd".
C7_FrameOfZoomAndAverages ==
  [][ /\ last'.op = "ma" => range_key' = range_key /\ datazoom' = datazoom
      /\ last'.op = "zoom" => range_key' = range_key /\ enabled_mas' = enabled_mas
      /\ (range_key' = range_key /\ last'.op \notin {"zoom", "ytd"})
           => datazoom' = datazoom
    ]_vars

\* A moving-average box was clicked while the user's window {30,70} was
\* stored: the window is still stored and the payload was cut with it.
C7_Witness ==
  /\ last.op = "ma" /\ last.dz = Zoom(30, 70)
  /\ enabled_mas # {}
  /\ view.status = "ready" /\ view.dataZoom = Zoom(30, 70)
  /\ chart_value = Zoom(30, 70)
  /\ datazoom = Zoom(30, 70)

\* C9: a fetch that returns after a newer interaction was made changes
\* neither the session state nor the page: every payload put on the page
\* is that of the latest interaction made, and with no run under way and
\* none asked for the page shows the latest interaction.
C9_Step ==
  /\ (run # None /\ run.seq < seq /\ run' = None) =>
       UNCHANGED <<fund_map, range_key, enabled_mas, datazoom, sel_code,
                   view, shown_seq>>
  /\ (view' # view \/ shown_seq' # shown_seq) => shown_seq' = seq'

====
